---------------------------- MODULE Spec2Model ----------------------------
(***************************************************************************)
(* Model of the seller-apis batch job: seller.py (Ozon) and market.py      *)
(* (Yandex Market).  Inventory rows are reconciled against a marketplace   *)
(* catalog into stock and price payloads, which are cut into batches and   *)
(* pushed with one write call per batch.                                   *)
(*                                                                         *)
(* Python strings are sequences of one-character strings; a spreadsheet    *)
(* cell is a tagged value, an int or a str, as pandas returns it.          *)
(* The "updatedAt" timestamp of a Yandex stock record is one value per     *)
(* create_stocks call and is left out of the records.                      *)
(***************************************************************************)
EXTENDS Integers, Sequences, FiniteSets, TLC

(***************************************************************************)
(* Bounds of the model.                                                    *)
(***************************************************************************)
\* longest inventory sheet of the reconciliation specification
MaxRows == 2
\* longest inventory sheet of the orchestrator specification
MaxRunRows == 2
\* longest catalog a marketplace returns
MaxCat == 3
\* largest batch-size limit of an upload
MaxBatch == 2

(***************************************************************************)
(* Python values and strings.                                              *)
(***************************************************************************)
IntV(i) == [t |-> "int", n |-> i, s |-> <<>>]
StrV(str) == [t |-> "str", n |-> 0, s |-> str]

DigitChars == <<"0", "1", "2", "3", "4", "5", "6", "7", "8", "9">>
Digits == {DigitChars[i] : i \in 1..10}
DigitVal(c) == (CHOOSE i \in 1..10 : DigitChars[i] = c) - 1

RECURSIVE NatToStr(_)
NatToStr(i) == IF i < 10 THEN <<DigitChars[i + 1]>>
               ELSE NatToStr(i \div 10) \o <<DigitChars[(i % 10) + 1]>>

\* str(int)
IntToStr(i) == IF i < 0 THEN <<"-">> \o NatToStr(0 - i) ELSE NatToStr(i)

\* str(x) of a cell: str(12) = "12", str("12") = "12"
Str(v) == IF v.t = "int" THEN IntToStr(v.n) ELSE v.s

RECURSIVE LStrip(_)
LStrip(str) == IF str # <<>> /\ Head(str) = " " THEN LStrip(Tail(str)) ELSE str

RECURSIVE RStrip(_)
RStrip(str) == IF str # <<>> /\ str[Len(str)] = " "
               THEN RStrip(SubSeq(str, 1, Len(str) - 1)) ELSE str

\* the literal of int(str) after the sign: digits, single "_" between digits
IsIntBody(b) ==
    /\ b # <<>>
    /\ b[1] \in Digits
    /\ b[Len(b)] \in Digits
    /\ \A i \in 1..Len(b) : b[i] \in Digits \cup {"_"}
    /\ \A i \in 1..(Len(b) - 1) : ~(b[i] = "_" /\ b[i + 1] = "_")

RECURSIVE BodyValue(_)
BodyValue(b) == IF b = <<>> THEN 0
                ELSE IF b[Len(b)] = "_" THEN BodyValue(SubSeq(b, 1, Len(b) - 1))
                ELSE 10 * BodyValue(SubSeq(b, 1, Len(b) - 1)) + DigitVal(b[Len(b)])

\* int(str): [ok |-> FALSE] stands for ValueError
StrToInt(str) ==
    LET st == RStrip(LStrip(str))
        signed == st # <<>> /\ Head(st) \in {"+", "-"}
        body == IF signed THEN Tail(st) ELSE st
    IN IF IsIntBody(body)
       THEN [ok |-> TRUE,
             val |-> IF signed /\ Head(st) = "-" THEN 0 - BodyValue(body)
                     ELSE BodyValue(body)]
       ELSE [ok |-> FALSE, val |-> 0]

\* int(x) of a cell
PyInt(v) == IF v.t = "int" THEN [ok |-> TRUE, val |-> v.n] ELSE StrToInt(v.s)

\* a conversion that does not cut the price at the first "."
WholePrice(str) == str

\* price.split(".")[0]
RECURSIVE BeforeDot(_)
BeforeDot(str) == IF str = <<>> \/ Head(str) = "." THEN <<>>
                  ELSE <<Head(str)>> \o BeforeDot(Tail(str))

\* re.sub("[^0-9]", "", s)
RECURSIVE OnlyDigits(_)
OnlyDigits(str) == IF str = <<>> THEN <<>>
                   ELSE IF Head(str) \in Digits
                        THEN <<Head(str)>> \o OnlyDigits(Tail(str))
                        ELSE OnlyDigits(Tail(str))

\* seller.price_conversion; [ok |-> FALSE] stands for the error of a
\* price that is not a string (it has no split)
price_conversion(price) ==
    IF price.t = "str"
    THEN [ok |-> TRUE, s |-> OnlyDigits(BeforeDot(price.s))]
    ELSE [ok |-> FALSE, s |-> <<>>]

(***************************************************************************)
(* Reconciliation: create_stocks and create_prices of both modules.        *)
(***************************************************************************)
\* x in lst
In(x, lst) == \E i \in 1..Len(lst) : lst[i] = x

\* a create_stocks that forgets to remove the matched id
RemoveNothing(lst, x) == lst

\* a removal that fills the hole with the last element of the list
RemoveSwap(lst, x) ==
    LET k == CHOOSE i \in 1..Len(lst) :
                 lst[i] = x /\ \A j \in 1..(i - 1) : lst[j] # x
        short == SubSeq(lst, 1, Len(lst) - 1)
    IN IF k = Len(lst) THEN short ELSE [short EXCEPT ![k] = lst[Len(lst)]]

\* lst.remove(x): drops the first occurrence of x
Remove(lst, x) ==
    LET k == CHOOSE i \in 1..Len(lst) :
                 lst[i] = x /\ \A j \in 1..(i - 1) : lst[j] # x
    IN SubSeq(lst, 1, k - 1) \o SubSeq(lst, k + 1, Len(lst))

\* a quantity mapping without the "1" sentinel
StockOfLiteral(qty) ==
    IF Str(qty) = <<">", "1", "0">> THEN [ok |-> TRUE, val |-> 100] ELSE PyInt(qty)

\* the quantity mapping of create_stocks: ">10" is 100, "1" is 0, anything
\* else int(quantity); [ok |-> FALSE] is the error int raises
StockOf(qty) ==
    LET count == Str(qty)
    IN IF count = <<">", "1", "0">> THEN [ok |-> TRUE, val |-> 100]
       ELSE IF count = <<"1">> THEN [ok |-> TRUE, val |-> 0]
       ELSE PyInt(qty)

SellerStock(id, stock) == [offer_id |-> id, stock |-> stock]

MarketStock(id, stock, warehouse_id) ==
    [sku |-> id, warehouseId |-> warehouse_id,
     items |-> <<[count |-> stock, type |-> "FIT"]>>]

\* a create_stocks without its second loop
SellerNoLeftovers(ids) == <<>>

\* a second loop that walks the ids left from the end
SellerLeftoversReversed(ids) ==
    [i \in 1..Len(ids) |-> [offer_id |-> ids[Len(ids) + 1 - i], stock |-> 0]]

\* the second loop of seller.create_stocks: a zero record per id left
SellerLeftovers(ids) == [i \in 1..Len(ids) |-> SellerStock(ids[i], 0)]

\* the second loop of market.create_stocks
MarketLeftovers(ids, warehouse_id) ==
    [i \in 1..Len(ids) |-> MarketStock(ids[i], 0, warehouse_id)]

\* a create_stocks that maps the quantity of a row before it looks the code
\* up in offer_ids
RECURSIVE SellerStocksEager(_, _, _, _)
SellerStocksEager(rows, k, ids, acc) ==
    IF k > Len(rows)
    THEN [ok |-> TRUE,
          stocks |-> acc \o [i \in 1..Len(ids) |-> [offer_id |-> ids[i], stock |-> 0]],
          offer_ids |-> ids]
    ELSE LET code == Str(rows[k].code)
             st == IF Str(rows[k].qty) = <<">", "1", "0">> THEN [ok |-> TRUE, val |-> 100]
                   ELSE IF Str(rows[k].qty) = <<"1">> THEN [ok |-> TRUE, val |-> 0]
                   ELSE PyInt(rows[k].qty)
         IN IF ~st.ok THEN [ok |-> FALSE, stocks |-> <<>>, offer_ids |-> ids]
            ELSE IF In(code, ids)
                 THEN SellerStocksEager(rows, k + 1, Remove(ids, code),
                          Append(acc, [offer_id |-> code, stock |-> st.val]))
                 ELSE SellerStocksEager(rows, k + 1, ids, acc)

\* seller.create_stocks from row k on, with the stocks collected so far and
\* the caller's offer_ids list as mutated so far.  An error leaves the list
\* as the rows before the failing one mutated it and returns no stocks.
RECURSIVE SellerStocksFrom(_, _, _, _)
SellerStocksFrom(rows, k, ids, acc) ==
    IF k > Len(rows)
    THEN [ok |-> TRUE, stocks |-> acc \o SellerLeftovers(ids), offer_ids |-> ids]
    ELSE LET code == Str(rows[k].code)
         IN IF In(code, ids)
            THEN LET st == StockOf(rows[k].qty)
                 IN IF st.ok
                    THEN SellerStocksFrom(rows, k + 1, Remove(ids, code),
                                          Append(acc, SellerStock(code, st.val)))
                    ELSE [ok |-> FALSE, stocks |-> <<>>, offer_ids |-> ids]
            ELSE SellerStocksFrom(rows, k + 1, ids, acc)

seller_create_stocks(watch_remnants, ids) ==
    SellerStocksFrom(watch_remnants, 1, ids, <<>>)

RECURSIVE MarketStocksFrom(_, _, _, _, _)
MarketStocksFrom(rows, k, ids, acc, warehouse_id) ==
    IF k > Len(rows)
    THEN [ok |-> TRUE, stocks |-> acc \o MarketLeftovers(ids, warehouse_id),
          offer_ids |-> ids]
    ELSE LET code == Str(rows[k].code)
         IN IF In(code, ids)
            THEN LET st == StockOf(rows[k].qty)
                 IN IF st.ok
                    THEN MarketStocksFrom(rows, k + 1, Remove(ids, code),
                             Append(acc, MarketStock(code, st.val, warehouse_id)),
                             warehouse_id)
                    ELSE [ok |-> FALSE, stocks |-> <<>>, offer_ids |-> ids]
            ELSE MarketStocksFrom(rows, k + 1, ids, acc, warehouse_id)

market_create_stocks(watch_remnants, ids, warehouse_id) ==
    MarketStocksFrom(watch_remnants, 1, ids, <<>>, warehouse_id)

\* a create_prices that sends the price cell as it is
SellerPriceRaw(row) ==
    [ok |-> row.price.t = "str",
     rec |-> [auto_action_enabled |-> "UNKNOWN", currency_code |-> "RUB",
              offer_id |-> Str(row.code), old_price |-> <<"0">>,
              price |-> row.price.s]]

\* the record seller.create_prices builds for a row
SellerPrice(row) ==
    LET p == price_conversion(row.price)
    IN [ok |-> p.ok,
        rec |-> [auto_action_enabled |-> "UNKNOWN", currency_code |-> "RUB",
                 offer_id |-> Str(row.code), old_price |-> <<"0">>,
                 price |-> p.s]]

\* the record market.create_prices builds for a row: the value is
\* int(price_conversion(price)), an error when no digit is left
MarketPrice(row) ==
    LET p == price_conversion(row.price)
        v == IF p.ok THEN StrToInt(p.s) ELSE [ok |-> FALSE, val |-> 0]
    IN [ok |-> v.ok,
        rec |-> [id |-> Str(row.code),
                 price |-> [value |-> v.val, currencyId |-> "RUR"]]]

RECURSIVE SellerPricesFrom(_, _, _, _)
SellerPricesFrom(rows, k, ids, acc) ==
    IF k > Len(rows) THEN [ok |-> TRUE, prices |-> acc]
    ELSE IF In(Str(rows[k].code), ids)
         THEN LET p == SellerPrice(rows[k])
              IN IF p.ok THEN SellerPricesFrom(rows, k + 1, ids, Append(acc, p.rec))
                 ELSE [ok |-> FALSE, prices |-> <<>>]
         ELSE SellerPricesFrom(rows, k + 1, ids, acc)

seller_create_prices(watch_remnants, ids) ==
    SellerPricesFrom(watch_remnants, 1, ids, <<>>)

RECURSIVE MarketPricesFrom(_, _, _, _)
MarketPricesFrom(rows, k, ids, acc) ==
    IF k > Len(rows) THEN [ok |-> TRUE, prices |-> acc]
    ELSE IF In(Str(rows[k].code), ids)
         THEN LET p == MarketPrice(rows[k])
              IN IF p.ok THEN MarketPricesFrom(rows, k + 1, ids, Append(acc, p.rec))
                 ELSE [ok |-> FALSE, prices |-> <<>>]
         ELSE MarketPricesFrom(rows, k + 1, ids, acc)

market_create_prices(watch_remnants, ids) ==
    MarketPricesFrom(watch_remnants, 1, ids, <<>>)

(***************************************************************************)
(* seller.divide: the chunks lst[i : i + n] for i in range(0, len(lst), n).*)
(* n = 0 is the ValueError of range; n < 0 is an empty range.              *)
(***************************************************************************)
Min(a, b) == IF a < b THEN a ELSE b

RECURSIVE ChunksFrom(_, _, _)
ChunksFrom(lst, i, n) ==
    IF i >= Len(lst) THEN <<>>
    ELSE <<SubSeq(lst, i + 1, Min(i + n, Len(lst)))>> \o ChunksFrom(lst, i + n, n)

\* a divide that yields full chunks only
RECURSIVE FullChunksFrom(_, _, _)
FullChunksFrom(lst, i, n) ==
    IF i + n > Len(lst) THEN <<>>
    ELSE <<SubSeq(lst, i + 1, i + n)>> \o FullChunksFrom(lst, i + n, n)

divide_full(lst, n) ==
    IF n = 0 THEN [ok |-> FALSE, chunks |-> <<>>]
    ELSE IF n < 0 THEN [ok |-> TRUE, chunks |-> <<>>]
    ELSE [ok |-> TRUE, chunks |-> FullChunksFrom(lst, 0, n)]

divide(lst, n) ==
    IF n = 0 THEN [ok |-> FALSE, chunks |-> <<>>]
    ELSE IF n < 0 THEN [ok |-> TRUE, chunks |-> <<>>]
    ELSE [ok |-> TRUE, chunks |-> ChunksFrom(lst, 0, n)]

(***************************************************************************)
(* State.                                                                  *)
(***************************************************************************)
VARIABLES
    entry,           \* what is being run: an orchestrator, an uploader, or
                     \* the reconciliation functions called directly
    campaign,        \* the shop the run is working on: OZON, FBS or DBS
    pc,              \* position of the run in its code
    watch_remnants,  \* the inventory rows download_stock returns
    offer_ids,       \* the offer-id list held by the caller
    stocks,          \* the last list create_stocks returned to the run
    prices,          \* the last list create_prices returned to the run
    pending,         \* list(divide(...)): the batches not sent yet
    calls,           \* log of the write calls issued to the marketplace
    fetched,         \* log of the catalog fetches started
    error,           \* the exception that ended the run, "" when none
    limit,           \* batch-size limits of the run: [stock, price]
    last,            \* the last direct call of a reconciliation function
    arg,             \* the arguments a caller holds for price_conversion
                     \* or divide
    gen,             \* the generator a call of divide returned
    paging           \* the loop of get_offer_ids: token, pages, items

vars == <<entry, campaign, pc, watch_remnants, offer_ids, stocks, prices, pending,
          calls, fetched, error, limit, last, arg, gen, paging>>

(***************************************************************************)
(* Inputs.                                                                 *)
(***************************************************************************)
\* offer ids a marketplace lists
OfferIds == {<<"1">>, <<"1", "2">>, <<"9">>}

\* codes of the sheet: an int cell, a str cell listed, a str cell unlisted
Codes == {IntV(12), StrV(<<"1">>), StrV(<<"7">>)}

\* quantity and price cells of a row
Cells == {
    [qty |-> StrV(<<">", "1", "0">>), price |-> StrV(<<"2", "'", "4", ".", "0">>)],
    [qty |-> StrV(<<"1">>),           price |-> StrV(<<"0", "9">>)],
    [qty |-> StrV(<<"2", "5">>),      price |-> StrV(<<"7", ".", "1", ".", "2">>)],
    [qty |-> StrV(<<"-", "3">>),      price |-> StrV(<<"0", "9">>)],
    [qty |-> StrV(<<"x">>),           price |-> StrV(<<"a">>)] }

RowSet == {[code |-> c, qty |-> v.qty, price |-> v.price] : c \in Codes, v \in Cells}

SeqsUpTo(S, n) == UNION {[1..k -> S] : k \in 0..n}

Distinct(lst) == \A i, j \in 1..Len(lst) : i # j => lst[i] # lst[j]

\* a catalog lists an offer id once
Catalogs == {c \in SeqsUpTo(OfferIds, MaxCat) : Distinct(c)}

Warehouses == {"WAREHOUSE_FBS_ID", "WAREHOUSE_DBS_ID"}

NoCall == [fn |-> "", ids |-> <<>>, ok |-> TRUE, out |-> <<>>]
NoArg == <<>>
NoGen == [state |-> "none", lst |-> <<>>, n |-> 1, i |-> 0, out |-> <<>>]
NoPaging == [module |-> "", state |-> "none", token |-> "", product_list |-> <<>>,
             requests |-> <<>>, answers |-> <<>>, offer_ids |-> <<>>]

(***************************************************************************)
(* Reconciliation specification: a caller holding rows and an offer-id     *)
(* list calls create_stocks and create_prices of either module, any number *)
(* of times, on the same list object.                                      *)
(***************************************************************************)
InitRecon ==
    /\ entry = "recon"
    /\ campaign = ""
    /\ pc = "idle"
    /\ watch_remnants \in SeqsUpTo(RowSet, MaxRows)
    /\ offer_ids \in Catalogs
    /\ stocks = <<>>
    /\ prices = <<>>
    /\ pending = <<>>
    /\ calls = <<>>
    /\ fetched = <<>>
    /\ error = ""
    /\ limit = [stock |-> 1, price |-> 1]
    /\ last = NoCall
    /\ arg = NoArg
    /\ gen = NoGen
    /\ paging = NoPaging

ReconFrame == UNCHANGED <<entry, campaign, pc, watch_remnants, stocks, prices, pending,
                          calls, fetched, error, limit, arg, gen, paging>>

CallSellerCreateStocks ==
    /\ entry = "recon"
    /\ LET r == seller_create_stocks(watch_remnants, offer_ids)
       IN /\ last' = [fn |-> "seller.create_stocks", ids |-> offer_ids,
                      ok |-> r.ok, out |-> r.stocks]
          /\ offer_ids' = r.offer_ids
    /\ ReconFrame

CallMarketCreateStocks ==
    /\ entry = "recon"
    /\ LET r == market_create_stocks(watch_remnants, offer_ids, "WAREHOUSE_FBS_ID")
       IN /\ last' = [fn |-> "market.create_stocks", ids |-> offer_ids,
                      ok |-> r.ok, out |-> r.stocks]
          /\ offer_ids' = r.offer_ids
    /\ ReconFrame

\* a create_prices that takes the ids it has priced out of the list
CallSellerCreatePricesConsuming ==
    /\ entry = "recon"
    /\ LET r == seller_create_prices(watch_remnants, offer_ids)
       IN last' = [fn |-> "seller.create_prices", ids |-> offer_ids,
                   ok |-> r.ok, out |-> r.prices]
    /\ offer_ids' = SelectSeq(offer_ids, LAMBDA id :
                         \A k \in 1..Len(watch_remnants) :
                             Str(watch_remnants[k].code) # id)
    /\ ReconFrame

CallSellerCreatePrices ==
    /\ entry = "recon"
    /\ LET r == seller_create_prices(watch_remnants, offer_ids)
       IN last' = [fn |-> "seller.create_prices", ids |-> offer_ids,
                   ok |-> r.ok, out |-> r.prices]
    /\ UNCHANGED offer_ids
    /\ ReconFrame

CallMarketCreatePrices ==
    /\ entry = "recon"
    /\ LET r == market_create_prices(watch_remnants, offer_ids)
       IN last' = [fn |-> "market.create_prices", ids |-> offer_ids,
                   ok |-> r.ok, out |-> r.prices]
    /\ UNCHANGED offer_ids
    /\ ReconFrame

NextRecon ==
    \/ CallSellerCreateStocks
    \/ CallMarketCreateStocks
    \/ CallSellerCreatePrices
    \/ CallMarketCreatePrices

SpecRecon == InitRecon /\ [][NextRecon]_vars

(***************************************************************************)
(* Orchestrator specification: one run of seller.main, of market.main, or  *)
(* of one of the four uploaders driven by a caller.  The marketplace      *)
(* answers every call with success or with an error status.  The batch    *)
(* limits written in the code (100, 900, 1000, 2000, 500) are scaled down *)
(* to limit.stock and limit.price.                                        *)
(***************************************************************************)
Mains == {"seller.main", "market.main"}
Uploaders == {"seller.upload_stocks", "seller.upload_prices",
              "market.upload_stocks", "market.upload_prices"}

\* rows of a run: a listed code and an unlisted one, a good row and a row
\* whose quantity and price do not parse
RunRowSet ==
    {r \in RowSet : /\ r.code \in {IntV(12), StrV(<<"7">>)}
                    /\ r.qty \in {StrV(<<">", "1", "0">>), StrV(<<"x">>)}}

\* the catalogs a marketplace serves in a run, in one listing order
ListingOrder == <<<<"1", "2">>, <<"9">>, <<"1">>>>
Rank(id) == CHOOSE i \in 1..Len(ListingOrder) : ListingOrder[i] = id
\* get_offer_ids returns what the pages list and drops no repetition: a
\* listing that changes while its pages are read can repeat an offer id
RepeatedListing == <<<<"1", "2">>, <<"1", "2">>>>
RunCatalogs ==
    {c \in Catalogs : \A i \in 1..(Len(c) - 1) : Rank(c[i]) < Rank(c[i + 1])}
        \cup {RepeatedListing}

Warehouse(c) == IF c = "FBS" THEN "WAREHOUSE_FBS_ID" ELSE "WAREHOUSE_DBS_ID"

Init ==
    /\ entry \in Mains \cup Uploaders
    /\ campaign \in IF entry \in {"market.upload_stocks", "market.upload_prices"}
                    THEN {"FBS", "DBS"}
                    ELSE IF entry = "market.main" THEN {"FBS"} ELSE {"OZON"}
    /\ pc = IF entry = "market.main" THEN "download_stock" ELSE "get_offer_ids"
    /\ watch_remnants \in SeqsUpTo(RunRowSet, MaxRunRows)
    /\ offer_ids = <<>>
    /\ stocks = <<>>
    /\ prices = <<>>
    /\ pending = <<>>
    /\ calls = <<>>
    /\ fetched = <<>>
    /\ error = ""
    /\ limit \in [stock : IF entry \in {"seller.upload_prices", "market.upload_prices"}
                          THEN {1} ELSE 1..MaxBatch,
                  price : IF entry \in {"seller.main", "seller.upload_prices",
                                        "market.upload_prices"}
                          THEN 1..MaxBatch ELSE {1}]
    /\ last = NoCall
    /\ arg = NoArg
    /\ gen = NoGen
    /\ paging = NoPaging

\* an error that is recorded while the loop goes on
RaiseAndGoOn(exc) ==
    /\ error' = exc
    /\ pc' = pc

\* an exception leaves the try block of a main for its except clause, and
\* leaves an uploader for its caller
Raise(exc) ==
    /\ error' = exc
    /\ pc' = IF entry \in Mains THEN "caught" ELSE "raised"

\* get_offer_ids(...): the catalog of the shop, or the error of a page
GetOfferIds(next) ==
    \/ \E c \in RunCatalogs :
          /\ offer_ids' = c
          /\ fetched' = Append(fetched, [campaign |-> campaign, ok |-> TRUE, ids |-> c])
          /\ pc' = next
          /\ UNCHANGED error
    \/ /\ fetched' = Append(fetched, [campaign |-> campaign, ok |-> FALSE, ids |-> <<>>])
       /\ Raise("HTTPError")
       /\ UNCHANGED offer_ids

\* stocks = create_stocks(...) and list(divide(stocks, n)) of the loop header
\* that follows it; r is what create_stocks gave
ReconcileStocks(r, next, after) ==
    /\ offer_ids' = r.offer_ids
    /\ IF r.ok
       THEN LET d == divide(r.stocks, limit.stock)
            IN /\ stocks' = r.stocks
               /\ pending' = d.chunks
               /\ IF d.ok
                  THEN pc' = (IF d.chunks = <<>> THEN after ELSE next) /\ UNCHANGED error
                  ELSE Raise("ValueError")
       ELSE Raise("ValueError") /\ UNCHANGED <<stocks, pending>>

\* prices = create_prices(...) and list(divide(prices, n))
ReconcilePrices(r, next, after) ==
    IF r.ok
    THEN LET d == divide(r.prices, limit.price)
         IN /\ prices' = r.prices
            /\ pending' = d.chunks
            /\ IF d.ok
               THEN pc' = (IF d.chunks = <<>> THEN after ELSE next) /\ UNCHANGED error
               ELSE Raise("ValueError")
    ELSE Raise("ValueError") /\ UNCHANGED <<prices, pending>>

\* one pass of an upload loop: the write call for the next batch;
\* raise_for_status ends the loop on an error status
SendBatch(op, after) ==
    /\ pending # <<>>
    /\ \/ /\ calls' = Append(calls, [op |-> op, campaign |-> campaign,
                                     batch |-> Head(pending), ok |-> TRUE])
          /\ pending' = Tail(pending)
          /\ pc' = (IF Tail(pending) = <<>> THEN after ELSE pc)
          /\ UNCHANGED error
       \/ /\ calls' = Append(calls, [op |-> op, campaign |-> campaign,
                                     batch |-> Head(pending), ok |-> FALSE])
          /\ Raise("HTTPError")
          /\ UNCHANGED pending

(***************************************************************************)
(* seller.main                                                             *)
(***************************************************************************)
SellerMainGetOfferIds ==
    /\ entry = "seller.main" /\ pc = "get_offer_ids"
    /\ GetOfferIds("download_stock")
    /\ UNCHANGED <<entry, campaign, watch_remnants, stocks, prices, pending,
                   calls, limit, last,
                   arg, gen, paging>>

\* download_stock(): the sheet, or a transport error
SellerMainDownloadStock ==
    /\ entry = "seller.main" /\ pc = "download_stock"
    /\ \/ pc' = "create_stocks" /\ UNCHANGED error
       \/ Raise("ConnectionError")
    /\ UNCHANGED <<entry, campaign, watch_remnants, offer_ids, stocks, prices,
                   pending, calls, fetched, limit, last,
                   arg, gen, paging>>

SellerMainCreateStocks ==
    /\ entry = "seller.main" /\ pc = "create_stocks"
    /\ ReconcileStocks(seller_create_stocks(watch_remnants, offer_ids),
                       "update_stocks", "create_prices")
    /\ UNCHANGED <<entry, campaign, watch_remnants, prices, calls, fetched,
                   limit, last,
                   arg, gen, paging>>

SellerMainUpdateStocks ==
    /\ entry = "seller.main" /\ pc = "update_stocks"
    /\ SendBatch("update_stocks", "create_prices")
    /\ UNCHANGED <<entry, campaign, watch_remnants, offer_ids, stocks, prices,
                   fetched, limit, last,
                   arg, gen, paging>>

\* create_prices is given the list create_stocks has worked on
SellerMainCreatePrices ==
    /\ entry = "seller.main" /\ pc = "create_prices"
    /\ ReconcilePrices(seller_create_prices(watch_remnants, offer_ids),
                       "update_price", "done")
    /\ UNCHANGED <<entry, campaign, watch_remnants, offer_ids, stocks, calls,
                   fetched, limit, last,
                   arg, gen, paging>>

SellerMainUpdatePrice ==
    /\ entry = "seller.main" /\ pc = "update_price"
    /\ SendBatch("update_price", "done")
    /\ UNCHANGED <<entry, campaign, watch_remnants, offer_ids, stocks, prices,
                   fetched, limit, last,
                   arg, gen, paging>>

(***************************************************************************)
(* market.main: FBS, then DBS, inside one try block                        *)
(***************************************************************************)
\* download_stock() stands before the try block: its error ends the process
MarketMainDownloadStock ==
    /\ entry = "market.main" /\ pc = "download_stock"
    /\ \/ pc' = "get_offer_ids" /\ UNCHANGED error
       \/ pc' = "crashed" /\ error' = "ConnectionError"
    /\ UNCHANGED <<entry, campaign, watch_remnants, offer_ids, stocks, prices,
                   pending, calls, fetched, limit, last,
                   arg, gen, paging>>

MarketMainGetOfferIds ==
    /\ entry = "market.main" /\ pc = "get_offer_ids"
    /\ GetOfferIds("create_stocks")
    /\ UNCHANGED <<entry, campaign, watch_remnants, stocks, prices, pending,
                   calls, limit, last,
                   arg, gen, paging>>

MarketMainCreateStocks ==
    /\ entry = "market.main" /\ pc = "create_stocks"
    /\ ReconcileStocks(market_create_stocks(watch_remnants, offer_ids,
                                            Warehouse(campaign)),
                       "update_stocks", "upload_prices")
    /\ UNCHANGED <<entry, campaign, watch_remnants, prices, calls, fetched,
                   limit, last,
                   arg, gen, paging>>

MarketMainUpdateStocks ==
    /\ entry = "market.main" /\ pc = "update_stocks"
    /\ SendBatch("update_stocks", "upload_prices")
    /\ UNCHANGED <<entry, campaign, watch_remnants, offer_ids, stocks, prices,
                   fetched, limit, last,
                   arg, gen, paging>>

\* upload_prices(...) is a coroutine function called without await: the call
\* builds a coroutine object that is never run, and main goes on
MarketMainUploadPrices ==
    /\ entry = "market.main" /\ pc = "upload_prices"
    /\ IF campaign = "FBS"
       THEN campaign' = "DBS" /\ pc' = "get_offer_ids"
       ELSE campaign' = campaign /\ pc' = "done"
    /\ UNCHANGED <<entry, watch_remnants, offer_ids, stocks, prices, pending,
                   calls, fetched, error, limit, last,
                   arg, gen, paging>>

(***************************************************************************)
(* The uploaders, run to their end by a caller that awaits them            *)
(***************************************************************************)
SellerUploadStocksGetOfferIds ==
    /\ entry = "seller.upload_stocks" /\ pc = "get_offer_ids"
    /\ GetOfferIds("create_stocks")
    /\ UNCHANGED <<entry, campaign, watch_remnants, stocks, prices, pending,
                   calls, limit, last,
                   arg, gen, paging>>

SellerUploadStocksCreateStocks ==
    /\ entry = "seller.upload_stocks" /\ pc = "create_stocks"
    /\ ReconcileStocks(seller_create_stocks(watch_remnants, offer_ids),
                       "update_stocks", "done")
    /\ UNCHANGED <<entry, campaign, watch_remnants, prices, calls, fetched,
                   limit, last,
                   arg, gen, paging>>

SellerUploadStocksUpdateStocks ==
    /\ entry = "seller.upload_stocks" /\ pc = "update_stocks"
    /\ SendBatch("update_stocks", "done")
    /\ UNCHANGED <<entry, campaign, watch_remnants, offer_ids, stocks, prices,
                   fetched, limit, last,
                   arg, gen, paging>>

SellerUploadPricesGetOfferIds ==
    /\ entry = "seller.upload_prices" /\ pc = "get_offer_ids"
    /\ GetOfferIds("create_prices")
    /\ UNCHANGED <<entry, campaign, watch_remnants, stocks, prices, pending,
                   calls, limit, last,
                   arg, gen, paging>>

SellerUploadPricesCreatePrices ==
    /\ entry = "seller.upload_prices" /\ pc = "create_prices"
    /\ ReconcilePrices(seller_create_prices(watch_remnants, offer_ids),
                       "update_price", "done")
    /\ UNCHANGED <<entry, campaign, watch_remnants, offer_ids, stocks, calls,
                   fetched, limit, last,
                   arg, gen, paging>>

SellerUploadPricesUpdatePrice ==
    /\ entry = "seller.upload_prices" /\ pc = "update_price"
    /\ SendBatch("update_price", "done")
    /\ UNCHANGED <<entry, campaign, watch_remnants, offer_ids, stocks, prices,
                   fetched, limit, last,
                   arg, gen, paging>>

MarketUploadStocksGetOfferIds ==
    /\ entry = "market.upload_stocks" /\ pc = "get_offer_ids"
    /\ GetOfferIds("create_stocks")
    /\ UNCHANGED <<entry, campaign, watch_remnants, stocks, prices, pending,
                   calls, limit, last,
                   arg, gen, paging>>

MarketUploadStocksCreateStocks ==
    /\ entry = "market.upload_stocks" /\ pc = "create_stocks"
    /\ ReconcileStocks(market_create_stocks(watch_remnants, offer_ids,
                                            Warehouse(campaign)),
                       "update_stocks", "done")
    /\ UNCHANGED <<entry, campaign, watch_remnants, prices, calls, fetched,
                   limit, last,
                   arg, gen, paging>>

MarketUploadStocksUpdateStocks ==
    /\ entry = "market.upload_stocks" /\ pc = "update_stocks"
    /\ SendBatch("update_stocks", "done")
    /\ UNCHANGED <<entry, campaign, watch_remnants, offer_ids, stocks, prices,
                   fetched, limit, last,
                   arg, gen, paging>>

MarketUploadPricesGetOfferIds ==
    /\ entry = "market.upload_prices" /\ pc = "get_offer_ids"
    /\ GetOfferIds("create_prices")
    /\ UNCHANGED <<entry, campaign, watch_remnants, stocks, prices, pending,
                   calls, limit, last,
                   arg, gen, paging>>

MarketUploadPricesCreatePrices ==
    /\ entry = "market.upload_prices" /\ pc = "create_prices"
    /\ ReconcilePrices(market_create_prices(watch_remnants, offer_ids),
                       "update_price", "done")
    /\ UNCHANGED <<entry, campaign, watch_remnants, offer_ids, stocks, calls,
                   fetched, limit, last,
                   arg, gen, paging>>

MarketUploadPricesUpdatePrice ==
    /\ entry = "market.upload_prices" /\ pc = "update_price"
    /\ SendBatch("update_price", "done")
    /\ UNCHANGED <<entry, campaign, watch_remnants, offer_ids, stocks, prices,
                   fetched, limit, last,
                   arg, gen, paging>>

Next ==
    \/ SellerMainGetOfferIds
    \/ SellerMainDownloadStock
    \/ SellerMainCreateStocks
    \/ SellerMainUpdateStocks
    \/ SellerMainCreatePrices
    \/ SellerMainUpdatePrice
    \/ MarketMainDownloadStock
    \/ MarketMainGetOfferIds
    \/ MarketMainCreateStocks
    \/ MarketMainUpdateStocks
    \/ MarketMainUploadPrices
    \/ SellerUploadStocksGetOfferIds
    \/ SellerUploadStocksCreateStocks
    \/ SellerUploadStocksUpdateStocks
    \/ SellerUploadPricesGetOfferIds
    \/ SellerUploadPricesCreatePrices
    \/ SellerUploadPricesUpdatePrice
    \/ MarketUploadStocksGetOfferIds
    \/ MarketUploadStocksCreateStocks
    \/ MarketUploadStocksUpdateStocks
    \/ MarketUploadPricesGetOfferIds
    \/ MarketUploadPricesCreatePrices
    \/ MarketUploadPricesUpdatePrice

Spec == Init /\ [][Next]_vars

(***************************************************************************)
(* Reading the records and the rows in the claims.                         *)
(***************************************************************************)
IsStocksCall == last.fn \in {"seller.create_stocks", "market.create_stocks"}
IsPricesCall == last.fn \in {"seller.create_prices", "market.create_prices"}

StockId(r) == IF "sku" \in DOMAIN r THEN r.sku ELSE r.offer_id
StockCount(r) == IF "sku" \in DOMAIN r THEN r.items[1].count ELSE r.stock
PriceId(r) == IF "id" \in DOMAIN r THEN r.id ELSE r.offer_id

\* how many records of a stock list carry the offer id
Occurrences(id, recs) == Cardinality({i \in 1..Len(recs) : StockId(recs[i]) = id})

\* row k is the first row of the sheet carrying its code
FirstOfCode(rows, k) == \A j \in 1..(k - 1) : Str(rows[j].code) # Str(rows[k].code)

\* row k is matched against the catalog ids
Matched(rows, k, ids) == In(Str(rows[k].code), ids) /\ FirstOfCode(rows, k)

\* no row of the sheet carries the offer id
Unlisted(rows, id) == \A k \in 1..Len(rows) : Str(rows[k].code) # id

\* a decimal numeral with an optional sign, and the integer it denotes
IsNumeral(str) ==
    LET body == IF str # <<>> /\ Head(str) \in {"+", "-"} THEN Tail(str) ELSE str
    IN body # <<>> /\ \A i \in 1..Len(body) : body[i] \in Digits

RECURSIVE DecValue(_)
DecValue(ds) == IF ds = <<>> THEN 0
                ELSE DecValue(SubSeq(ds, 1, Len(ds) - 1)) * 10
                     + DigitVal(ds[Len(ds)])

NumeralValue(str) ==
    IF Head(str) = "-" THEN 0 - DecValue(Tail(str))
    ELSE IF Head(str) = "+" THEN DecValue(Tail(str))
    ELSE DecValue(str)

Sentinel10 == <<">", "1", "0">>
Sentinel1 == <<"1">>

\* C1: the list create_stocks returns has one record per offer id of the
\* catalog it was given and no record of any other offer id: as many records
\* as the catalog has ids, each id of the catalog on exactly one of them.
C1_StocksCoverCatalog ==
    (IsStocksCall /\ last.ok) =>
        /\ Len(last.out) = Len(last.ids)
        /\ \A i \in 1..Len(last.ids) : Occurrences(last.ids[i], last.out) = 1
        /\ \A i \in 1..Len(last.out) : In(StockId(last.out[i]), last.ids)

\* create_stocks returned for a sheet whose two rows carry the same listed
\* code, with other ids of the catalog left over
C1_Witness ==
    /\ IsStocksCall /\ last.ok
    /\ Len(last.ids) = 3
    /\ Len(watch_remnants) = 2
    /\ Str(watch_remnants[1].code) = Str(watch_remnants[2].code)
    /\ In(Str(watch_remnants[1].code), last.ids)

\* C7: a catalog id no row carries gets a record with stock 0 from
\* create_stocks and no record from create_prices; with no rows at all the
\* price list is empty.
C7_UnmatchedZeroedNoPrice ==
    /\ (IsStocksCall /\ last.ok) =>
          \A i \in 1..Len(last.ids) :
              Unlisted(watch_remnants, last.ids[i]) =>
                  /\ \E j \in 1..Len(last.out) : StockId(last.out[j]) = last.ids[i]
                  /\ \A j \in 1..Len(last.out) :
                         StockId(last.out[j]) = last.ids[i]
                             => StockCount(last.out[j]) = 0
    /\ (IsPricesCall /\ last.ok) =>
          /\ \A i \in 1..Len(last.ids) :
                 Unlisted(watch_remnants, last.ids[i]) =>
                     \A j \in 1..Len(last.out) : PriceId(last.out[j]) # last.ids[i]
          /\ (watch_remnants = <<>> => last.out = <<>>)

\* create_stocks returned a list holding the zero record of an unmatched id
\* next to a matched row's record with stock 100
C7_Witness ==
    /\ IsStocksCall /\ last.ok
    /\ \E i \in 1..Len(last.ids) : Unlisted(watch_remnants, last.ids[i])
    /\ \E j \in 1..Len(last.out) : StockCount(last.out[j]) = 100

\* the stock the quantity mapping gives a quantity string
ExpectedStock(count) ==
    IF count = Sentinel10 THEN 100
    ELSE IF count = Sentinel1 THEN 0
    ELSE NumeralValue(count)

\* the string of a quantity is a sentinel or a numeral
GoodQuantity(qty) == Str(qty) \in {Sentinel10, Sentinel1} \/ IsNumeral(Str(qty))

\* C8: create_stocks fails exactly when a matched row has a quantity that is
\* neither a sentinel nor a number; otherwise the record of every matched row
\* carries 100 for ">10", 0 for "1" and the number itself for any other one.
C8_QuantityMapping ==
    IsStocksCall =>
        /\ last.ok = (\A k \in 1..Len(watch_remnants) :
                          Matched(watch_remnants, k, last.ids)
                              => GoodQuantity(watch_remnants[k].qty))
        /\ last.ok =>
              \A k \in 1..Len(watch_remnants) :
                  Matched(watch_remnants, k, last.ids) =>
                      \E j \in 1..Len(last.out) :
                          /\ StockId(last.out[j]) = Str(watch_remnants[k].code)
                          /\ StockCount(last.out[j])
                                 = ExpectedStock(Str(watch_remnants[k].qty))

\* create_stocks returned for a matched row of quantity "1" and a matched row
\* of quantity "25"
C8_Witness ==
    /\ IsStocksCall /\ last.ok
    /\ Len(watch_remnants) = 2
    /\ Matched(watch_remnants, 1, last.ids)
    /\ Matched(watch_remnants, 2, last.ids)
    /\ watch_remnants[1].qty = StrV(<<"1">>)
    /\ watch_remnants[2].qty = StrV(<<"2", "5">>)

\* C9: every record create_stocks returns, for rows whose quantities are
\* sentinels or integer strings, carries a stock count that is at least 0.
C9_StockNonNegative ==
    (IsStocksCall /\ last.ok
       /\ \A k \in 1..Len(watch_remnants) : GoodQuantity(watch_remnants[k].qty)) =>
        \A j \in 1..Len(last.out) : StockCount(last.out[j]) >= 0

\* the rows of the sheet whose stringified code is in the offer-id list
PricedRows(rows, ids) == SelectSeq(rows, LAMBDA row : In(Str(row.code), ids))

\* the price a record carries equals the normalized price of the row: the
\* digit string for Ozon, the number it spells for Yandex Market
CarriesPrice(rec, row) ==
    IF "id" \in DOMAIN rec
    THEN rec.price.value = DecValue(price_conversion(row.price).s)
    ELSE rec.price = price_conversion(row.price).s

\* C10: the list create_prices returns has, in row order, one record per row
\* whose stringified code is in the offer-id list, with that code as offer
\* id and the row's normalized price as price, and no other record.
C10_PricesPerListedRow ==
    (IsPricesCall /\ last.ok) =>
        LET sel == PricedRows(watch_remnants, last.ids)
        IN /\ Len(last.out) = Len(sel)
           /\ \A i \in 1..Len(sel) :
                  /\ PriceId(last.out[i]) = Str(sel[i].code)
                  /\ CarriesPrice(last.out[i], sel[i])

\* create_prices returned for a sheet with an unlisted row before a listed
\* one whose price has a separator and a fraction
C10_Witness ==
    /\ IsPricesCall /\ last.ok
    /\ Len(watch_remnants) = 2
    /\ ~In(Str(watch_remnants[1].code), last.ids)
    /\ In(Str(watch_remnants[2].code), last.ids)
    /\ watch_remnants[2].price = StrV(<<"2", "'", "4", ".", "0">>)
    /\ Len(last.out) = 1

(***************************************************************************)
(* Claims about the runs.                                                  *)
(***************************************************************************)
RECURSIVE Flatten(_)
Flatten(ss) == IF ss = <<>> THEN <<>> ELSE Head(ss) \o Flatten(Tail(ss))

\* the write calls of one kind issued for a shop, in the order issued
CallsOf(op, c) == SelectSeq(calls, LAMBDA x : x.op = op /\ x.campaign = c)
Batches(cs) == [i \in 1..Len(cs) |-> cs[i].batch]

\* the catalog the first successful fetch for a shop returned
FetchedFor(c) ==
    LET fs == SelectSeq(fetched, LAMBDA f : f.campaign = c /\ f.ok)
    IN IF fs = <<>> THEN <<>> ELSE fs[1].ids

\* C2: a run of seller.main in which no call fails pushes through
\* update_price one price record for every row whose stringified code is in
\* the catalog fetched at the start of the run.
C2_MainPushesPricesOfListedRows ==
    (entry = "seller.main" /\ pc = "done" /\ error = "") =>
        LET sel == PricedRows(watch_remnants, FetchedFor("OZON"))
            sent == Flatten(Batches(CallsOf("update_price", "OZON")))
        IN /\ Len(sent) = Len(sel)
           /\ \A i \in 1..Len(sel) : sent[i].offer_id = Str(sel[i].code)

\* C3: a run of market.main in which no call fails has, when it ends, fetched
\* the catalog of FBS and of DBS and issued for each the stock-update calls
\* and one price-update call per non-empty price chunk.
C3_MainUploadsStocksAndPrices ==
    (entry = "market.main" /\ pc = "done" /\ error = "") =>
        \A c \in {"FBS", "DBS"} :
            LET ps == market_create_prices(watch_remnants, FetchedFor(c))
            IN /\ \E i \in 1..Len(fetched) : fetched[i].campaign = c /\ fetched[i].ok
               /\ Len(Flatten(Batches(CallsOf("update_stocks", c))))
                      = Len(FetchedFor(c))
               /\ ps.ok => Len(CallsOf("update_price", c))
                               = Len(divide(ps.prices, limit.price).chunks)

\* C4: when an error ends the FBS part of market.main, the fetch of the DBS
\* catalog is still started.
C4_FbsFailureLeavesDbsAttempted ==
    (entry = "market.main" /\ pc = "caught" /\ campaign = "FBS") =>
        \E i \in 1..Len(fetched) : fetched[i].campaign = "DBS"

CeilDiv(a, b) == (a + b - 1) \div b

\* the write calls cs carry the list lst in batches of at most k records
SentInBatches(cs, lst, k) ==
    /\ Len(cs) = CeilDiv(Len(lst), k)
    /\ \A i \in 1..Len(cs) : cs[i].ok /\ Len(cs[i].batch) \in 1..k
    /\ Flatten(Batches(cs)) = lst

StockUploadOver ==
    /\ entry \in {"seller.main", "market.main", "seller.upload_stocks",
                  "market.upload_stocks"}
    /\ pc \in {"create_prices", "update_price", "upload_prices", "done"}

PriceUploadOver ==
    /\ entry \in {"seller.main", "seller.upload_prices", "market.upload_prices"}
    /\ pc = "done"

\* C5: an upload in which no call fails issues ceil(len(L)/k) write calls for
\* the reconciled list L and the limit k, none for an empty L, each with 1 to
\* k records, and the batches in the order sent, put end to end, are L.
C5_UploadSendsListInBatches ==
    /\ StockUploadOver =>
           SentInBatches(CallsOf("update_stocks", campaign), stocks, limit.stock)
    /\ PriceUploadOver =>
           SentInBatches(CallsOf("update_price", campaign), prices, limit.price)

\* an upload of three stock records under a limit of two is over
C5_Witness ==
    /\ entry = "market.upload_stocks" /\ pc = "done"
    /\ Len(stocks) = 3 /\ limit.stock = 2
    /\ Len(calls) = 2

\* C6: once a write call has failed no further write call is issued, and no
\* step takes back a call already made: the log of calls only grows, and it
\* stops growing at the first failed call.
C6_FailedBatchEndsUpload ==
    [][/\ Len(calls') >= Len(calls)
       /\ SubSeq(calls', 1, Len(calls)) = calls
       /\ (\E i \in 1..Len(calls) : ~calls[i].ok) => calls' = calls]_vars

\* the second batch of an upload failed after the first went through, with
\* a third one never sent
C6_Witness ==
    /\ Len(calls) = 2 /\ calls[1].ok /\ ~calls[2].ok
    /\ Len(pending) = 2
    /\ pc \in {"caught", "raised"}

(***************************************************************************)
(* Chunker specification: divide is a generator function.  A call builds   *)
(* the generator and runs nothing; each next() of the consumer runs the    *)
(* body to its next yield.  range(0, len(lst), n) is evaluated by the      *)
(* first next().                                                           *)
(***************************************************************************)
\* longest list given to divide
MaxSeq == 3
\* largest chunk size given to divide, and the smallest one negated
MaxStep == 3

Items == {"a", "b"}

InitDivide ==
    /\ entry = "divide"
    /\ campaign = ""
    /\ pc = "idle"
    /\ watch_remnants = <<>>
    /\ offer_ids = <<>>
    /\ stocks = <<>>
    /\ prices = <<>>
    /\ pending = <<>>
    /\ calls = <<>>
    /\ fetched = <<>>
    /\ error = ""
    /\ limit = [stock |-> 1, price |-> 1]
    /\ last = NoCall
    /\ arg \in [lst : SeqsUpTo(Items, MaxSeq), n : (0 - MaxStep)..MaxStep]
    /\ gen = NoGen
    /\ paging = NoPaging

DivideFrame == UNCHANGED <<entry, campaign, pc, watch_remnants, offer_ids, stocks,
                           prices, pending, calls, fetched, error, limit, last,
                           arg, paging>>

\* a range that takes a step of zero
RangeAnyStep(n) == TRUE

\* range(...) raises ValueError for a step of zero
RangeStepOk(n) == n # 0

\* i is in range(0, stop, n), for i a multiple of n
InRange(i, stop, n) == IF n > 0 THEN i < stop ELSE i > stop

\* a slice that ends one element early
DivideSliceShort(lst, i, n) == SubSeq(lst, i + 1, Min(i + n - 1, Len(lst)))

\* lst[i : i + n] for 0 <= i and 0 < n
DivideSlice(lst, i, n) == SubSeq(lst, i + 1, Min(i + n, Len(lst)))

\* divide(lst, n): the generator object
CallDivide ==
    /\ entry = "divide" /\ gen.state = "none"
    /\ gen' = [state |-> "created", lst |-> arg.lst, n |-> arg.n, i |-> 0,
               out |-> <<>>]
    /\ DivideFrame

\* next(generator): the error of range, the next chunk, or the end
NextChunk ==
    /\ entry = "divide" /\ gen.state \in {"created", "running"}
    /\ IF gen.state = "created" /\ ~RangeStepOk(gen.n)
       THEN gen' = [gen EXCEPT !.state = "raised"]
       ELSE IF InRange(gen.i, Len(gen.lst), gen.n)
            THEN gen' = [gen EXCEPT !.state = "running",
                                    !.out = Append(@, DivideSlice(gen.lst, gen.i, gen.n)),
                                    !.i = @ + gen.n]
            ELSE gen' = [gen EXCEPT !.state = "exhausted"]
    /\ DivideFrame

NextDivide == CallDivide \/ NextChunk

SpecDivide == InitDivide /\ [][NextDivide]_vars

\* the generator has been consumed to its end or to its error
Consumed == gen.state \in {"exhausted", "raised"}

\* C11: for a positive n the chunks divide(S, n) produces, put end to end in
\* the order produced, are S, each has 1 to n elements, and there are
\* ceil(len(S)/n) of them; no error ends the production.
C11_ChunksPartitionSequence ==
    (Consumed /\ gen.n > 0) =>
        /\ gen.state = "exhausted"
        /\ Flatten(gen.out) = gen.lst
        /\ \A c \in 1..Len(gen.out) : Len(gen.out[c]) \in 1..gen.n
        /\ Len(gen.out) = CeilDiv(Len(gen.lst), gen.n)

\* three elements have been produced in chunks of two
C11_Witness ==
    /\ gen.state = "exhausted"
    /\ Len(gen.lst) = 3 /\ gen.n = 2
    /\ Len(gen.out) = 2

\* C12: consuming divide(S, 0) ends with the error of a zero step and no
\* chunk, for an empty S too; consuming divide(S, n) with n < 0 ends with no
\* error and no chunk.
C12_ZeroAndNegativeSize ==
    /\ (gen.state \in {"running", "exhausted", "raised"} /\ gen.n = 0) =>
           (gen.state = "raised" /\ gen.out = <<>>)
    /\ (gen.state \in {"running", "exhausted", "raised"} /\ gen.n < 0) =>
           (gen.state = "exhausted" /\ gen.out = <<>>)

\* divide of a list of two with size 0 has raised
C12_Witness ==
    /\ gen.state = "raised"
    /\ gen.n = 0 /\ Len(gen.lst) = 2

(***************************************************************************)
(* Price Normalizer specification: price_conversion called on a cell.      *)
(***************************************************************************)
\* longest price string
MaxPrice == 3

\* characters of a price: digits, the decimal point, a thousands mark, a
\* letter of the currency
PriceChars == {"1", "9", ".", "'", "p"}

InitPrice ==
    /\ entry = "price_conversion"
    /\ campaign = ""
    /\ pc = "idle"
    /\ watch_remnants = <<>>
    /\ offer_ids = <<>>
    /\ stocks = <<>>
    /\ prices = <<>>
    /\ pending = <<>>
    /\ calls = <<>>
    /\ fetched = <<>>
    /\ error = ""
    /\ limit = [stock |-> 1, price |-> 1]
    /\ last = NoCall
    /\ arg \in {StrV(str) : str \in SeqsUpTo(PriceChars, MaxPrice)} \cup {IntV(1000)}
    /\ gen = NoGen
    /\ paging = NoPaging

CallPriceConversion ==
    /\ entry = "price_conversion"
    /\ LET r == price_conversion(arg)
       IN last' = [fn |-> "price_conversion", ids |-> <<>>, ok |-> r.ok, out |-> r.s]
    /\ UNCHANGED <<entry, campaign, pc, watch_remnants, offer_ids, stocks, prices,
                   pending, calls, fetched, error, limit, arg, gen, paging>>

NextPrice == CallPriceConversion

SpecPrice == InitPrice /\ [][NextPrice]_vars

\* the part of a string that precedes its first "."
FirstDot(str) ==
    IF \E i \in 1..Len(str) : str[i] = "."
    THEN CHOOSE i \in 1..Len(str) : str[i] = "." /\ \A j \in 1..(i - 1) : str[j] # "."
    ELSE Len(str) + 1
Prefix(str) == SubSeq(str, 1, FirstDot(str) - 1)

\* C15: for a price string p, price_conversion(p) is the digits, in their
\* order, of the part of p before its first "." (all of p without one): it
\* holds digits only and is empty when that part has no digit.
C15_DigitsBeforeFirstDot ==
    (last.fn = "price_conversion" /\ arg.t = "str") =>
        /\ last.ok
        /\ last.out = SelectSeq(Prefix(arg.s), LAMBDA c : c \in Digits)
        /\ \A i \in 1..Len(last.out) : last.out[i] \in Digits
        /\ (\A i \in 1..Len(Prefix(arg.s)) : Prefix(arg.s)[i] \notin Digits)
               => last.out = <<>>

\* the price "1.9" has been converted to "1"
C15_Witness ==
    /\ last.fn = "price_conversion"
    /\ arg = StrV(<<"1", ".", "9">>)
    /\ last.out = <<"1">>

(***************************************************************************)
(* Further claims about the reconciliation.                                *)
(***************************************************************************)
\* the price cell has no digit before its first "."
Unparsable(price) ==
    \A i \in 1..Len(Prefix(price.s)) : Prefix(price.s)[i] \notin Digits

\* the record is an Ozon price record with an empty price
EmptyPrice(rec) == "offer_id" \in DOMAIN rec /\ rec.price = <<>>

\* C14: create_prices of either module fails when a row whose code is in the
\* offer-id list has a price without a digit before its first ".", and no
\* record it returns carries an empty price.
C14_UnparsablePriceIsFatal ==
    IsPricesCall =>
        /\ (\E k \in 1..Len(watch_remnants) :
                /\ In(Str(watch_remnants[k].code), last.ids)
                /\ Unparsable(watch_remnants[k].price)) => ~last.ok
        /\ last.ok => \A j \in 1..Len(last.out) : ~EmptyPrice(last.out[j])

\* the codes of the matched rows, in row order
MatchedCodes(rows, ids) ==
    LET idx == SelectSeq([k \in 1..Len(rows) |-> k],
                         LAMBDA k : Matched(rows, k, ids))
    IN [i \in 1..Len(idx) |-> Str(rows[idx[i]].code)]

\* the ids of the catalog no row carries, in catalog order
LeftoverIds(rows, ids) == SelectSeq(ids, LAMBDA id : Unlisted(rows, id))

\* C16: the list create_stocks returns holds first the records of the matched
\* rows in row order, then the records of the catalog ids left unmatched in
\* catalog order; the leftover records carry stock 0.
C16_MatchedThenLeftovers ==
    (IsStocksCall /\ last.ok) =>
        LET m == MatchedCodes(watch_remnants, last.ids)
            l == LeftoverIds(watch_remnants, last.ids)
        IN /\ [i \in 1..Len(last.out) |-> StockId(last.out[i])] = m \o l
           /\ \A i \in (Len(m) + 1)..Len(last.out) : StockCount(last.out[i]) = 0

\* two rows were matched against a catalog that lists an unmatched id first
C16_Witness ==
    /\ IsStocksCall /\ last.ok
    /\ Len(watch_remnants) = 2
    /\ Matched(watch_remnants, 1, last.ids)
    /\ Matched(watch_remnants, 2, last.ids)
    /\ Len(last.ids) = 3
    /\ Unlisted(watch_remnants, last.ids[1])

\* C17: when create_stocks returns, the caller's offer-id list holds the
\* catalog ids no row matched, in their original order, and nothing else.
C17_CallerListKeepsUnmatched ==
    (IsStocksCall /\ last.ok) =>
        offer_ids = LeftoverIds(watch_remnants, last.ids)

\* create_stocks has taken the middle id out of a catalog of three
C17_Witness ==
    /\ IsStocksCall /\ last.ok
    /\ Len(last.ids) = 3
    /\ offer_ids = <<last.ids[1], last.ids[3]>>

\* C18: a call of create_prices leaves the offer-id list and the rows as they
\* were, and a call that follows a call of the same create_prices returns
\* the same list.
C18_CreatePricesChangesNothing ==
    [][IsPricesCall' =>
          /\ offer_ids' = offer_ids
          /\ watch_remnants' = watch_remnants
          /\ (last.fn = last'.fn => last' = last)]_vars

\* create_prices has returned two records and the list is as it was given
C18_Witness ==
    /\ IsPricesCall /\ last.ok
    /\ Len(last.out) = 2
    /\ offer_ids = last.ids /\ offer_ids # <<>>

\* row k carries a listed code that an earlier row carries too
LaterDuplicate(rows, k, ids) == In(Str(rows[k].code), ids) /\ ~FirstOfCode(rows, k)

\* the first row of the sheet with the code of row k
FirstRowOf(rows, k) ==
    CHOOSE j \in 1..k : Str(rows[j].code) = Str(rows[k].code) /\ FirstOfCode(rows, j)

\* C19: when rows repeat a code the catalog lists once, create_stocks returns
\* one record for it, with the stock of the first of these rows; the quantity
\* of a later one is not read, so it cannot make the call fail.
C19_FirstDuplicateRowWins ==
    IsStocksCall =>
        /\ (\A k \in 1..Len(watch_remnants) :
                (In(Str(watch_remnants[k].code), last.ids)
                     /\ FirstOfCode(watch_remnants, k))
                    => GoodQuantity(watch_remnants[k].qty)) => last.ok
        /\ last.ok =>
              \A k \in 1..Len(watch_remnants) :
                  LaterDuplicate(watch_remnants, k, last.ids) =>
                      /\ Occurrences(Str(watch_remnants[k].code), last.out) = 1
                      /\ \E j \in 1..Len(last.out) :
                             /\ StockId(last.out[j]) = Str(watch_remnants[k].code)
                             /\ StockCount(last.out[j]) =
                                    ExpectedStock(Str(watch_remnants[
                                        FirstRowOf(watch_remnants, k)].qty))

\* create_stocks returned for two rows of one listed code, the second with a
\* quantity that does not parse
C19_Witness ==
    /\ IsStocksCall /\ last.ok
    /\ Len(watch_remnants) = 2
    /\ LaterDuplicate(watch_remnants, 2, last.ids)
    /\ watch_remnants[1].qty = StrV(<<"2", "5">>)
    /\ watch_remnants[2].qty = StrV(<<"x">>)
    /\ \E j \in 1..Len(last.out) : StockCount(last.out[j]) = 25

(***************************************************************************)
(* Pagination specification: get_offer_ids of either module, one action    *)
(* per pass of its while loop and one for the list it builds on return.    *)
(* The marketplace answers each request with any page, any continuation    *)
(* token and (Ozon) any total, or with an HTTP error.                      *)
(***************************************************************************)
MaxRequests == 2
MaxTotal == 3

\* what dict.get gives for a key the answer does not carry
None == "None"
Tokens == {"", None, "t"}
Pages == {<<>>, <<"1">>, <<"2", "1">>}
Modules == {"seller", "market"}

InitFetch ==
    /\ entry = "get_offer_ids"
    /\ campaign = ""
    /\ pc = "idle"
    /\ watch_remnants = <<>>
    /\ offer_ids = <<>>
    /\ stocks = <<>>
    /\ prices = <<>>
    /\ pending = <<>>
    /\ calls = <<>>
    /\ fetched = <<>>
    /\ error = ""
    /\ limit = [stock |-> 1, price |-> 1]
    /\ last = NoCall
    /\ arg = NoArg
    /\ gen = NoGen
    /\ \E m \in Modules :
           paging = [module |-> m, state |-> "loop", token |-> "",
                     product_list |-> <<>>, requests |-> <<>>,
                     answers |-> <<>>, offer_ids |-> <<>>]

FetchFrame ==
    UNCHANGED <<entry, campaign, pc, watch_remnants, offer_ids, stocks, prices,
                pending, calls, fetched, error, limit, last, arg, gen>>

\* the products of one page of Ozon and of Yandex Market
SellerItems(page) == [i \in 1..Len(page) |-> [offer_id |-> page[i]]]
MarketEntries(page) == [i \in 1..Len(page) |-> [offer |-> [shopSku |-> page[i]]]]

\* the loop ends on a token that is "" or None
SeesAnyTokenAsLast(page_token) == TRUE
NotPage(page_token) == page_token \in {"", None}

\* get_product_list raised: the error leaves get_offer_ids
FetchRaised == [paging EXCEPT !.state = "raised",
                              !.requests = Append(@, paging.token)]

\* one pass of the loop of seller.get_offer_ids
SellerGetProductList ==
    /\ entry = "get_offer_ids"
    /\ paging.module = "seller"
    /\ paging.state = "loop"
    /\ Len(paging.requests) < MaxRequests
    /\ \/ paging' = FetchRaised
       \/ \E page \in Pages, total \in 0..MaxTotal, last_id \in Tokens :
              LET product_list == paging.product_list \o SellerItems(page)
              IN paging' = [paging EXCEPT
                     !.requests = Append(@, paging.token),
                     !.answers = Append(@, [items |-> page, token |-> last_id]),
                     !.product_list = product_list,
                     !.token = last_id,
                     !.state = IF total = Len(product_list)
                               THEN "break" ELSE "loop"]
    /\ FetchFrame

\* the list seller.get_offer_ids returns
SellerCollectOfferIds ==
    /\ entry = "get_offer_ids"
    /\ paging.module = "seller"
    /\ paging.state = "break"
    /\ paging' = [paging EXCEPT
           !.offer_ids = [i \in 1..Len(paging.product_list) |->
                              paging.product_list[i].offer_id],
           !.state = "returned"]
    /\ FetchFrame

\* one pass of the loop of market.get_offer_ids
MarketGetProductList ==
    /\ entry = "get_offer_ids"
    /\ paging.module = "market"
    /\ paging.state = "loop"
    /\ Len(paging.requests) < MaxRequests
    /\ \/ paging' = FetchRaised
       \/ \E entries \in Pages, nextPageToken \in Tokens :
              paging' = [paging EXCEPT
                  !.requests = Append(@, paging.token),
                  !.answers = Append(@, [items |-> entries,
                                         token |-> nextPageToken]),
                  !.product_list = @ \o MarketEntries(entries),
                  !.token = nextPageToken,
                  !.state = IF NotPage(nextPageToken) THEN "break" ELSE "loop"]
    /\ FetchFrame

\* the list market.get_offer_ids returns
MarketCollectOfferIds ==
    /\ entry = "get_offer_ids"
    /\ paging.module = "market"
    /\ paging.state = "break"
    /\ paging' = [paging EXCEPT
           !.offer_ids = [i \in 1..Len(paging.product_list) |->
                              paging.product_list[i].offer.shopSku],
           !.state = "returned"]
    /\ FetchFrame

NextFetch ==
    \/ SellerGetProductList
    \/ SellerCollectOfferIds
    \/ MarketGetProductList
    \/ MarketCollectOfferIds

SpecFetch == InitFetch /\ [][NextFetch]_vars

\* the offer ids of the pages answered so far, in page order
RECURSIVE IdsOfPages(_)
IdsOfPages(answers) ==
    IF answers = <<>> THEN <<>>
    ELSE IdsOfPages(SubSeq(answers, 1, Len(answers) - 1))
             \o answers[Len(answers)].items

\* the loop of get_offer_ids is over
LoopLeft == paging.state \in {"break", "returned"}

\* C13: get_offer_ids of either marketplace passes to each request the
\* continuation token of the page before ("" to the first), leaves its loop
\* exactly when the page just answered carries an empty or absent token, and
\* returns the offer ids of all pages fetched, in page order.
C13_PagingEndsOnEmptyToken ==
    (entry = "get_offer_ids" /\ paging.state # "raised") =>
        /\ \A i \in 1..Len(paging.requests) :
               paging.requests[i] =
                   IF i = 1 THEN "" ELSE paging.answers[i - 1].token
        /\ paging.answers # <<>> =>
               (LoopLeft <=>
                    paging.answers[Len(paging.answers)].token \in {"", None})
        /\ paging.state = "returned" =>
               paging.offer_ids = IdsOfPages(paging.answers)

\* the same statement for Yandex Market alone
C13_MarketPagingEndsOnEmptyToken ==
    paging.module = "market" => C13_PagingEndsOnEmptyToken

\* Yandex Market answered two pages, the second one with an empty token
C13_MarketWitness ==
    /\ paging.module = "market"
    /\ paging.state = "returned"
    /\ Len(paging.answers) = 2
    /\ paging.answers[1].token = "t"
    /\ paging.offer_ids = <<"1", "2", "1">>

=============================================================================
